---------------------------- MODULE Spec2Model ----------------------------
(***************************************************************************)
(* Model of qweeze/reminder-bot: the reminder package (bot.py, db.py,      *)
(* handlers.py, parser.py, sender.py) and the legacy single-file variant   *)
(* (src/bot.py) where it differs.                                           *)
(*                                                                         *)
(* Time is modelled at minute resolution: a datetime is the number of      *)
(* minutes since 2020-01-01 00:00, a date is the number of days since      *)
(* 2020-01-01, a time of day is a minute of the day, a timedelta is a      *)
(* number of minutes.  A message text is a sequence of tokens (the words   *)
(* between single spaces); the regular expressions of the parser are       *)
(* matched token-wise.  The vocabulary holds no word that contains a       *)
(* pattern fragment inside it, numbers have at most two digits and no      *)
(* leading zero.  The Russian words are written in Latin transliteration   *)
(* (cherez, min, chas, den, zavtra, v, pn..vs, yanvarya..dekabrya).        *)
(***************************************************************************)
EXTENDS Integers, Sequences, FiniteSets, TLC

(***************************************************************************)
(* Calendar (datetime.date / datetime.datetime of the standard library)    *)
(***************************************************************************)
Years == 2020..2023

IsLeap(y) == (y % 4 = 0 /\ y % 100 # 0) \/ y % 400 = 0

DaysInMonth(y, m) ==
    IF m = 2 THEN (IF IsLeap(y) THEN 29 ELSE 28)
    ELSE IF m \in {4, 6, 9, 11} THEN 30 ELSE 31

DaysInYear(y) == IF IsLeap(y) THEN 366 ELSE 365

RECURSIVE DaysBeforeYear(_)
DaysBeforeYear(y) == IF y <= 2020 THEN 0 ELSE DaysBeforeYear(y - 1) + DaysInYear(y - 1)

RECURSIVE DaysBeforeMonth(_, _)
DaysBeforeMonth(y, m) == IF m <= 1 THEN 0 ELSE DaysBeforeMonth(y, m - 1) + DaysInMonth(y, m - 1)

\* dt.date(y, m, d): raises ValueError when the day does not exist
ValidDate(y, m, d) == m \in 1..12 /\ d >= 1 /\ d <= DaysInMonth(y, m)

MkDate(y, m, d) == DaysBeforeYear(y) + DaysBeforeMonth(y, m) + (d - 1)

YearOf(date) == CHOOSE y \in Years : DaysBeforeYear(y) <= date /\ date < DaysBeforeYear(y + 1)

\* the month and the day of the n-th day (from 0) of year y
MonthIn(y, n) == CHOOSE m \in 1..12 : DaysBeforeMonth(y, m) <= n /\ n < DaysBeforeMonth(y, m + 1)
DayIn(y, n, m) == n - DaysBeforeMonth(y, m) + 1

DayOfYear(date, y) == date - DaysBeforeYear(y)
MonthOfIn(date, y) == MonthIn(y, DayOfYear(date, y))
DayOfIn(date, y, m) == DayIn(y, DayOfYear(date, y), m)

MonthOf(date) == MonthOfIn(date, YearOf(date))
DayOfWith(date, y) == DayOfIn(date, y, MonthOfIn(date, y))
DayOf(date) == DayOfWith(date, YearOf(date))

\* date.weekday(): Monday is 0; 2020-01-01 was a Wednesday
Weekday(date) == (date + 2) % 7

MinutesPerDay == 24 * 60

\* datetime.date(), datetime.time(), datetime.combine(date, time)
DateOfDT(t) == t \div MinutesPerDay
TimeOfDT(t) == t % MinutesPerDay
Combine(date, time) == date * MinutesPerDay + time

\* dt.time(hours, minutes): raises ValueError outside 0..23 / 0..59
ValidTime(h, m) == h \in 0..23 /\ m \in 0..59
MkTime(h, m) == h * 60 + m

\* datetime.isoformat(): the text stored in the datetime column, as its
\* zero-padded fields in the order they are written
IsoFields(date, time, y) ==
    << y, MonthOfIn(date, y), DayOfWith(date, y), time \div 60, time % 60 >>

IsoFormat(t) == IsoFields(DateOfDT(t), TimeOfDT(t), YearOf(DateOfDT(t)))

\* datetime.fromisoformat()
FromIsoFormat(s) == Combine(MkDate(s[1], s[2], s[3]), MkTime(s[4], s[5]))

\* SQLite's text comparison  a < b  of two stored isoformat texts
RECURSIVE TextLessFrom(_, _, _)
TextLessFrom(a, b, i) ==
    IF i > Len(a) THEN i <= Len(b)
    ELSE IF i > Len(b) THEN FALSE
    ELSE IF a[i] # b[i] THEN a[i] < b[i]
    ELSE TextLessFrom(a, b, i + 1)

TextLess(a, b) == TextLessFrom(a, b, 1)

(***************************************************************************)
(* Message texts: sequences of tokens                                      *)
(***************************************************************************)
\* a word, a number written with one or two digits, a clock "H:MM", and the
\* double space that cutting a matched span out of the text leaves behind
W(s) == [k |-> "w", s |-> s, n |-> 0, m |-> 0]
Num(n) == [k |-> "n", s |-> "", n |-> n, m |-> 0]
HM(h, m) == [k |-> "hm", s |-> "", n |-> h, m |-> m]
Gap == [k |-> "gap", s |-> "", n |-> 0, m |-> 0]

IsWord(tok, words) == tok.k = "w" /\ tok.s \in words

\* [1-9][0-9]?
IsNum1to99(tok) == tok.k = "n" /\ tok.n \in 1..99
\* \d\d?
IsNum0to99(tok) == tok.k = "n" /\ tok.n \in 0..99
\* \d\d  (exactly two digits)
IsNum2Digits(tok) == tok.k = "n" /\ tok.n \in 10..99

week_days == << "pn", "vt", "sr", "cht", "pt", "sb", "vs" >>

month_names == << "yanvarya", "fevralya", "marta", "aprelya", "maya", "iyunya",
                  "iyulya", "avgusta", "sentyabrya", "oktyabrya", "noyabrya", "dekabrya" >>

Range(f) == { f[i] : i \in DOMAIN f }

\* tuple.index(x)
IndexOf(seq, x) == CHOOSE i \in DOMAIN seq : seq[i] = x

(***************************************************************************)
(* reminder/parser.py                                                      *)
(***************************************************************************)
None == 0 - 1

\* what a matcher returns: None (hit = FALSE), a raised error (err), or a
\* ParseResult with one field set and the span [s, e] of the match; glue
\* tells that the match swallowed the space after it
NoMatch == [hit |-> FALSE, err |-> "", date |-> None, delta |-> None, time |-> None,
            s |-> 0, e |-> 0, glue |-> FALSE]

Raised(error) == [NoMatch EXCEPT !.hit = TRUE, !.err = error]

Matched(field, value, s, e) ==
    [hit |-> TRUE, err |-> "",
     date |-> IF field = "date" THEN value ELSE None,
     delta |-> IF field = "delta" THEN value ELSE None,
     time |-> IF field = "time" THEN value ELSE None,
     s |-> s, e |-> e, glue |-> FALSE]

\* re.search: the leftmost position where the pattern matches, 0 when none
Search(text, At(_, _)) ==
    LET hits == { i \in 1..Len(text) : At(text, i) }
    IN  IF hits = {} THEN 0 ELSE CHOOSE i \in hits : \A j \in hits : i <= j

\* 'cherez ([1-9][0-9]?) <unit>'
ThroughAt(text, i, units) ==
    /\ i + 2 <= Len(text)
    /\ IsWord(text[i], {"cherez"})
    /\ IsNum1to99(text[i + 1])
    /\ IsWord(text[i + 2], units)

MinutesAt(text, i) == ThroughAt(text, i, {"min", "minuty", "minut"})
HoursAt(text, i) == ThroughAt(text, i, {"chas", "chasa", "chasov"})
DaysAt(text, i) == ThroughAt(text, i, {"den", "dnya", "dney"})
TomorrowAt(text, i) == IsWord(text[i], {"zavtra"})
WeekdayAt(text, i) == i + 1 <= Len(text) /\ IsWord(text[i], {"v"}) /\ IsWord(text[i + 1], Range(week_days))
MonthdayAt(text, i) == i + 1 <= Len(text) /\ IsNum1to99(text[i]) /\ IsWord(text[i + 1], Range(month_names))
TimeAt(text, i) ==
    /\ i + 1 <= Len(text)
    /\ IsWord(text[i], {"v"})
    /\ (IsNum0to99(text[i + 1]) \/ text[i + 1].k = "hm")

\* Each p_ function is  if (m := re.search(pattern, text)) is not None: ...;
\* the ...Match operator is its body given the position i of the match (0: none).
MinutesMatch(text, i) ==
    IF i = 0 THEN NoMatch ELSE Matched("delta", text[i + 1].n, i, i + 2)
p_minutes(now, text) == MinutesMatch(text, Search(text, MinutesAt))

HoursMatch(text, i) ==
    IF i = 0 THEN NoMatch ELSE Matched("delta", text[i + 1].n * 60, i, i + 2)
p_hours(now, text) == HoursMatch(text, Search(text, HoursAt))

DaysMatch(now, text, i) ==
    IF i = 0 THEN NoMatch ELSE Matched("date", DateOfDT(now) + text[i + 1].n, i, i + 2)
p_days(now, text) == DaysMatch(now, text, Search(text, DaysAt))

TomorrowMatch(now, i) ==
    IF i = 0 THEN NoMatch
    ELSE [Matched("date", DateOfDT(now) + 1, i, i) EXCEPT !.glue = TRUE]
p_tomorrow(now, text) == TomorrowMatch(now, Search(text, TomorrowAt))

\* an offset of 1..7, which takes today's weekday to next week (C24 fails
\* under it)
WeekdayOffset_nextWeek(weekday, today) == (((weekday - today) + 6) % 7) + 1

\* n_days = ((weekday - now.weekday()) + 7) % 7
WeekdayOffset(weekday, today) == ((weekday - today) + 7) % 7

WeekdayMatch(now, text, i) ==
    IF i = 0 THEN NoMatch
    ELSE Matched("date",
                 DateOfDT(now) + WeekdayOffset(IndexOf(week_days, text[i + 1].s) - 1,
                                               Weekday(DateOfDT(now))),
                 i, i + 1)
p_weekday(now, text) == WeekdayMatch(now, text, Search(text, WeekdayAt))

\* if date < now.date(): date = date.replace(date.year + 1), which raises
\* ValueError when the day does not exist in the next year (29 February)
NextYear(today, year, month, day, date, i) ==
    IF date < today
    THEN IF ValidDate(year + 1, month, day)
         THEN Matched("date", MkDate(year + 1, month, day), i, i + 1)
         ELSE Raised("ValueError")
    ELSE Matched("date", date, i, i + 1)

\* try: date = dt.date(now.year, month, day)  except ValueError: raise ParseError
MonthdayDate(today, year, month, day, i) ==
    IF ~ValidDate(year, month, day) THEN Raised("ParseError")
    ELSE NextYear(today, year, month, day, MkDate(year, month, day), i)

MonthdayMatch(now, text, i) ==
    IF i = 0 THEN NoMatch
    ELSE MonthdayDate(DateOfDT(now), YearOf(DateOfDT(now)),
                      IndexOf(month_names, text[i + 1].s), text[i].n, i)
p_monthday(now, text) == MonthdayMatch(now, text, Search(text, MonthdayAt))

\* dt.time(hours, minutes)
TimeValue(hours, minutes, i, e) ==
    IF ValidTime(hours, minutes) THEN Matched("time", MkTime(hours, minutes), i, e)
    ELSE Raised("ValueError")

\* group 4 of the match: the two digits after ':' or ' '
HasSpacedMinutes(text, i) == i + 2 <= Len(text) /\ IsNum2Digits(text[i + 2])

TimeMatch(text, i) ==
    IF i = 0 THEN NoMatch
    ELSE IF text[i + 1].k = "hm" THEN TimeValue(text[i + 1].n, text[i + 1].m, i, i + 1)
    ELSE IF HasSpacedMinutes(text, i) THEN TimeValue(text[i + 1].n, text[i + 2].n, i, i + 2)
    ELSE TimeValue(text[i + 1].n, 0, i, i + 1)
p_time(now, text) == TimeMatch(text, Search(text, TimeAt))

\* the functions of the module whose name starts with p_, in definition order
NumParsers == 7

Parser(k, now, text) ==
    CASE k = 1 -> p_minutes(now, text)
      [] k = 2 -> p_hours(now, text)
      [] k = 3 -> p_days(now, text)
      [] k = 4 -> p_tomorrow(now, text)
      [] k = 5 -> p_weekday(now, text)
      [] k = 6 -> p_monthday(now, text)
      [] k = 7 -> p_time(now, text)

\* text[:match.start()] + text[match.end():]
CutSpan(text, rv) ==
    SubSeq(text, 1, rv.s - 1) \o (IF rv.glue THEN << >> ELSE << Gap >>)
        \o SubSeq(text, rv.e + 1, Len(text))

\* result.date and cur_result.date, ...: both set
Conflict(result, cur) ==
    \/ (result.date # None /\ cur.date # None)
    \/ (result.delta # None /\ cur.delta # None)
    \/ (result.time # None /\ cur.time # None)

Update(old, new) == IF new # None THEN new ELSE old

\* one turn of the loop over the parsers, given what the parser returned
Merge(acc, rv) ==
    IF ~rv.hit THEN acc
    ELSE IF rv.err # "" THEN [acc EXCEPT !.err = rv.err]
    ELSE IF Conflict(acc, rv) THEN [acc EXCEPT !.err = "ParseError"]
    ELSE [acc EXCEPT !.date = Update(acc.date, rv.date),
                     !.delta = Update(acc.delta, rv.delta),
                     !.time = Update(acc.time, rv.time),
                     !.text = CutSpan(acc.text, rv)]

ParseStep(acc, k, now) ==
    IF acc.err # "" THEN acc ELSE Merge(acc, Parser(k, now, acc.text))

RECURSIVE ParseLoop(_, _, _)
ParseLoop(acc, k, now) ==
    IF k > NumParsers THEN acc ELSE ParseLoop(ParseStep(acc, k, now), k + 1, now)

\* str.strip()
RECURSIVE Strip(_)
Strip(text) ==
    IF text = << >> THEN text
    ELSE IF Head(text) = Gap THEN Strip(Tail(text))
    ELSE IF text[Len(text)] = Gap THEN Strip(SubSeq(text, 1, Len(text) - 1))
    ELSE text

default_time == MkTime(12, 0)

Failure(error) == [err |-> error, when |-> None, what |-> << >>]
Parsed(when, text) == [err |-> "", when |-> when, what |-> Strip(text)]

\* a resolution that leaves a time of day that has passed on today (C15 fails
\* under it)
NotBefore_asIs(when, now) == when

\* if when < now: when += dt.timedelta(days=1)
NotBefore(when, now) == IF when < now THEN when + MinutesPerDay ELSE when

\* the resolution of the collected fields
Resolve(result, now) ==
    IF result.delta # None
    THEN IF result.date # None \/ result.time # None
         THEN Failure("ParseError")
         ELSE Parsed(now + result.delta, result.text)
    ELSE IF result.date # None
    THEN Parsed(Combine(result.date, IF result.time # None THEN result.time ELSE default_time),
                result.text)
    ELSE IF result.time # None
    THEN Parsed(NotBefore(Combine(DateOfDT(now), result.time), now), result.text)
    ELSE Failure("ParseError")

Finish(result, now) ==
    IF result.err # "" THEN Failure(result.err) ELSE Resolve(result, now)

parse_reminder(now, text) ==
    Finish(ParseLoop([err |-> "", date |-> None, delta |-> None, time |-> None,
                      text |-> text], 1, now), now)

(***************************************************************************)
(* reminder/db.py: the records table                                       *)
(***************************************************************************)
\* A row holds the columns id, chat_id, datetime, reminder, sent.  The field
\* uid (the rank of the insert among all inserts) is a history field that
\* tells a row from a later one given the same id: no operation reads it.
MaxOf(S) == CHOOSE x \in S : \A y \in S : y <= x

\* integer primary key: SQLite gives a new row the largest id in use plus one
NewRowId(recs) == IF recs = {} THEN 1 ELSE MaxOf({ r.id : r \in recs }) + 1

save_reminder(recs, chat_id, when, what, uid) ==
    recs \cup { [id |-> NewRowId(recs), chat_id |-> chat_id, datetime |-> IsoFormat(when),
                 reminder |-> what, sent |-> 0, uid |-> uid] }

\* the where clause without its date condition (C4 fails under it)
ReadyToSend_noDate(r, now) == r.sent = 0

\* where datetime < ? and sent = 0
ReadyToSend(r, now) == TextLess(r.datetime, IsoFormat(now)) /\ r.sent = 0

\* the rows of a result set, in id order
RECURSIVE ById(_)
ById(S) ==
    IF S = {} THEN << >>
    ELSE LET r == CHOOSE x \in S : \A y \in S : x.id <= y.id
         IN  << r >> \o ById(S \ {r})

\* select chat_id, reminder from records where datetime < ? and sent = 0
SelectReady(recs, now) == ById({ r \in recs : ReadyToSend(r, now) })

\* an update that changes no row (C5 fails under it)
MarkSent_nothing(recs, now) == recs

\* an update that sets sent from the condition for every row, and so clears
\* it on the rows that are not due and unsent (C18 fails under it)
MarkSent_reset(recs, now) ==
    { [r EXCEPT !.sent = IF ReadyToSend(r, now) THEN 1 ELSE 0] : r \in recs }

\* update records set sent = 1 where datetime < ? and sent = 0
MarkSent(recs, now) ==
    { IF ReadyToSend(r, now) THEN [r EXCEPT !.sent = 1] ELSE r : r \in recs }

\* what process_ready_to_send does after the with body has finished
AfterYield(recs, rows, now) == IF rows # << >> THEN MarkSent(recs, now) ELSE recs

ListRow(r) == << r.id, FromIsoFormat(r.datetime), r.reminder >>
ListRows(rows) == [i \in DOMAIN rows |-> ListRow(rows[i])]

\* a list_unsent without the condition on sent (C13 fails under it)
list_unsent_all(recs, chat_id) == ListRows(ById({ r \in recs : r.chat_id = chat_id }))

\* select id, datetime, reminder from records where chat_id = ? and sent = 0
list_unsent(recs, chat_id) == ListRows(ById({ r \in recs : r.chat_id = chat_id /\ r.sent = 0 }))

\* a delete where id <= ? (C12 fails under it)
RemoveRows_upTo(recs, record_id) == { r \in recs : r.id > record_id }

\* delete from records where id = ?  and  cur.rowcount == 1
RemoveRows(recs, record_id) == { r \in recs : r.id # record_id }
remove_reminder(recs, record_id) ==
    [records |-> RemoveRows(recs, record_id),
     removed |-> Cardinality(recs) - Cardinality(RemoveRows(recs, record_id)) = 1]

(***************************************************************************)
(* reminder/handlers.py                                                    *)
(***************************************************************************)
\* A command "/<name><suffix>" (name one of list, remove, start): isInt = 1
\* when the suffix is the integer n, and the suffix is empty otherwise.
Cmd(name, n, isInt) == [k |-> "cmd", s |-> name, n |-> n, m |-> isInt]

\* strftime '%A, %d %b at %H:%M'
DateFields(date, time, y) ==
    << Weekday(date), DayOfWith(date, y), MonthOfIn(date, y), time \div 60, time % 60 >>
date_fmt(v) == DateFields(DateOfDT(v), TimeOfDT(v), YearOf(DateOfDT(v)))

\* what a handler call comes to: the reply, the table after it, and the
\* exception that left the handler ("" when it returned)
Returned(text, args, recs) == [reply |-> [s |-> text, a |-> args], records |-> recs, raised |-> ""]
Escaped(error, recs) == [reply |-> [s |-> "", a |-> << >>], records |-> recs, raised |-> error]

StartsWithSlash(text) == text # << >> /\ text[1].k = "cmd"

\* f'[{record_id}] {date_fmt(when)}: {reminder}' for each row, or 'Not found'
ListLine(row) == << row[1], date_fmt(row[2]), row[3] >>
ListReply(rows, recs) ==
    IF rows # << >> THEN Returned("list", [i \in DOMAIN rows |-> ListLine(rows[i])], recs)
    ELSE Returned("Not found", << >>, recs)

RemoveReply(record_id, rm) ==
    IF rm.removed THEN Returned("Removed reminder", << record_id >>, rm.records)
    ELSE Returned("Not found record with id", << record_id >>, rm.records)

\* int(command.split('remove')[1]): the suffix of "/remove<n>", or the number
\* that alone follows "/remove " (int skips the blank); None when int raises
RecordId(text, command) ==
    IF Len(text) = 1 /\ command.m = 1 THEN command.n
    ELSE IF Len(text) = 2 /\ command.m = 0 /\ text[2].k = "n" THEN text[2].n
    ELSE None

Removal(record_id, recs) ==
    IF record_id = None THEN Returned("Invalid record id", << >>, recs)
    ELSE RemoveReply(record_id, remove_reminder(recs, record_id))

\* command = message.text.strip('/'); the command is one token when nothing
\* follows it in the text
Command(message, recs, command, alone) ==
    IF command.s = "list" /\ command.m = 0 /\ alone
    THEN ListReply(list_unsent(recs, message.chat_id), recs)
    ELSE IF command.s = "remove" THEN Removal(RecordId(message.text, command), recs)
    ELSE Returned("Unknown command", << >>, recs)

handle_command(message, recs) == Command(message, recs, message.text[1], Len(message.text) = 1)

\* handle_message without the comparison of when with now, as in src/bot.py
\* (C8 fails under it)
HandleParsed_noPastCheck(message, recs, now, uid, p) ==
    IF p.err = "ParseError" THEN Returned("Could not parse date", << >>, recs)
    ELSE IF p.err # "" THEN Escaped(p.err, recs)
    ELSE IF p.what = << >> THEN Returned("Empy reminder", << >>, recs)
    ELSE Returned("Reminder set on", << date_fmt(p.when) >>,
                  save_reminder(recs, message.chat_id, p.when, p.what, uid))

\* a handle_message that saves before it looks at what (C22 fails under it)
HandleParsed_savesEmpty(message, recs, now, uid, p) ==
    IF p.err = "ParseError" THEN Returned("Could not parse date", << >>, recs)
    ELSE IF p.err # "" THEN Escaped(p.err, recs)
    ELSE IF p.what = << >>
         THEN Returned("Empy reminder", << >>,
                       save_reminder(recs, message.chat_id, p.when, p.what, uid))
    ELSE IF p.when < now THEN Returned("Date is in the past", << >>, recs)
    ELSE Returned("Reminder set on", << date_fmt(p.when) >>,
                  save_reminder(recs, message.chat_id, p.when, p.what, uid))

\* handle_message after  when, what = parse_reminder(now, message.text)
HandleParsed(message, recs, now, uid, p) ==
    IF p.err = "ParseError" THEN Returned("Could not parse date", << >>, recs)
    ELSE IF p.err # "" THEN Escaped(p.err, recs)
    ELSE IF p.what = << >> THEN Returned("Empy reminder", << >>, recs)
    ELSE IF p.when < now THEN Returned("Date is in the past", << >>, recs)
    ELSE Returned("Reminder set on", << date_fmt(p.when) >>,
                  save_reminder(recs, message.chat_id, p.when, p.what, uid))

handle_message(message, recs, now, uid) ==
    IF StartsWithSlash(message.text) THEN handle_command(message, recs)
    ELSE HandleParsed(message, recs, now, uid, parse_reminder(now, message.text))

(***************************************************************************)
(* State                                                                   *)
(***************************************************************************)
VARIABLES
    clock,          \* dt.datetime.now()
    records,        \* the records table
    nextUid,        \* history: the number of inserts so far, plus one
    platform,       \* the updates the messaging platform holds, oldest first
    nextUpdateId,   \* the update_id the platform gives the next update
    senders,        \* history: senders[u] is the username that sent update u
    pollPc,         \* Bot.start_polling: "fetch", "dispatch" or "dead"
    offset,         \* the local offset of start_polling
    batch,          \* the messages of the current get_updates result not yet dispatched
    last,           \* history: the latest call of the handler
    fetched,        \* history: the updates the platform has returned to get_updates
    sndPc,          \* Sender.start: "run" (about to call send_reminders), "send", "sleep"
    sndRows,        \* the rows the open process_ready_to_send of the Sender yielded
    sndNow,         \* the now of that process_ready_to_send
    sndDone,        \* how many of sndRows the for loop of send_reminders has passed
    sndTick,        \* history: the number of calls of send_reminders that got rows
    sndErr,         \* the exception Sender.start logged last ("" for none)
    outbox,         \* history: the calls of Bot.send_message, oldest first
    inv,            \* the open process_ready_to_send of each direct caller of the store
    doneBy,         \* history: doneBy[uid] is the number of calls of the direct callers
                    \* that yielded the row uid and whose with body returned
    supPc,          \* the while loop of __main__: "watch", "notify", "backoff" or "exec"
    runs,           \* history: the number of times the process has started (up to MaxRuns + 1)
    admin,          \* args.admin_chat_id (None when not given)
    botStop,        \* Bot._is_stopping
    sndStop,        \* Sender._is_stopping
    slept,          \* Sender.sleep: the turns of its for loop that have slept a second
    rm,             \* history: the latest direct call of remove_reminder
    parsed,         \* history: the latest direct call of parse_reminder
    matched         \* history: the latest direct call of a matcher

storeVars == << records, nextUid >>
pollVars == << platform, nextUpdateId, senders, pollPc, offset, batch, last, fetched >>
sndVars == << sndPc, sndRows, sndNow, sndDone, sndTick, sndErr >>
apiVars == << inv, doneBy >>
ctlVars == << supPc, runs, admin, botStop, sndStop, slept >>
callVars == << rm, parsed, matched >>
vars == << clock, records, nextUid, platform, nextUpdateId, senders, pollPc, offset, batch,
           last, fetched, sndPc, sndRows, sndNow, sndDone, sndTick, sndErr, outbox, inv, doneBy,
           supPc, runs, admin, botStop, sndStop, slept, rm, parsed, matched >>

\* bounds of the model
MaxUpdates == 2
MaxAdvance == 1
MaxRecords == 2
MaxOutbox == 3
MaxPhrases == 3
MaxRuns == 1

\* --usernames, and the chat each user writes from
allowed_usernames == { "alice", "bob" }
Usernames == allowed_usernames \cup { "mallory" }
ChatOf(username) == CASE username = "alice" -> 1 [] username = "bob" -> 2 [] OTHER -> 3

StartClock == Combine(MkDate(2020, 5, 26), MkTime(12, 30))

\* the message texts the users send (at StartClock, a Tuesday, 12:30):
\* "v 12 30 a" is accepted, "v 25 a" has no such hour, "v vt a" is today at
\* 12:00, "a" has no date; << >> is an update without text
SetText == << W("v"), Num(12), Num(30), W("a") >>
RemoveText == << Cmd("remove", 1, 1) >>
ListText == << Cmd("list", 0, 0) >>
Texts == {
    SetText, RemoveText, ListText,
    << W("v"), Num(25), W("a") >>,
    << W("v"), W("vt"), W("a") >>,
    << W("a") >>,
    << >> }

\* who sends what: alice every text, bob and mallory the well-formed requests
Inputs ==
    ({ "alice" } \X Texts) \cup ({ "bob", "mallory" } \X { SetText, RemoveText })

\* the direct callers of the store, and what they save: reminders due a minute
\* before the start, at the start and a minute after it
Callers == { 1, 2 }
Chats == { 1, 2 }
DueTimes == { StartClock - 1, StartClock, StartClock + 1 }
Body == << W("a") >>

NoCall == [update_id |-> 0, chat_id |-> 0, text |-> << >>, now |-> 0,
           reply |-> [s |-> "", a |-> << >>], raised |-> "", before |-> {}, after |-> {}]

Idle == [open |-> FALSE, now |-> 0, rows |-> << >>]

NoRemove == [id |-> 0, removed |-> FALSE, before |-> {}, after |-> {}]
NoParse == [now |-> 0, text |-> << >>, err |-> "", when |-> None, what |-> << >>]
NoMatcherCall == [k |-> 0, now |-> 0, text |-> << >>, rv |-> NoMatch]

\* the process has started on an empty table: everything but args.admin_chat_id
Booted ==
    /\ clock = StartClock
    /\ records = {}
    /\ nextUid = 1
    /\ platform = << >>
    /\ nextUpdateId = 1
    /\ senders = << >>
    /\ pollPc = "fetch"
    /\ offset = 1
    /\ batch = << >>
    /\ last = NoCall
    /\ fetched = {}
    /\ sndPc = "run"
    /\ sndRows = << >>
    /\ sndNow = 0
    /\ sndDone = 0
    /\ sndTick = 0
    /\ sndErr = ""
    /\ outbox = << >>
    /\ inv = [p \in Callers |-> Idle]
    /\ doneBy = [uid \in 1..MaxRecords |-> 0]
    /\ supPc = "watch"
    /\ runs = 1
    /\ botStop = FALSE
    /\ sndStop = FALSE
    /\ slept = 0
    /\ rm = NoRemove
    /\ parsed = NoParse
    /\ matched = NoMatcherCall

\* started without --admin-chat-id
Init == Booted /\ admin = None

\* args.admin_chat_id: not given, or a chat
Admins == { None, 4 }

\* time passes
Advance ==
    /\ clock < StartClock + MaxAdvance
    /\ clock' = clock + 1
    /\ UNCHANGED << storeVars, pollVars, sndVars, outbox, apiVars, ctlVars, callVars >>

\* a user writes to the bot: the platform queues an update
NewUpdateFrom(inputs) ==
    /\ nextUpdateId <= MaxUpdates
    /\ \E input \in inputs :
          /\ platform' = Append(platform, [update_id |-> nextUpdateId, username |-> input[1],
                                           chat_id |-> ChatOf(input[1]), text |-> input[2]])
          /\ senders' = Append(senders, input[1])
    /\ nextUpdateId' = nextUpdateId + 1
    /\ UNCHANGED << clock, storeVars, pollPc, offset, batch, last, fetched, sndVars, outbox, apiVars,
                    ctlVars, callVars >>

NewUpdate == NewUpdateFrom(Inputs)

(***************************************************************************)
(* reminder/bot.py                                                         *)
(***************************************************************************)
AtOrAfter(items, off) == SelectSeq(items, LAMBDA item : item.update_id >= off)

\* the list comprehension without the username condition (C6 fails under it)
Accepted_anyone(item) == item.text # << >>

\* the condition of the list comprehension of get_updates
Accepted(item) == item.text # << >> /\ item.username \in allowed_usernames

Message(item) == [update_id |-> item.update_id, chat_id |-> item.chat_id, text |-> item.text]

MessagesOf(kept) == [i \in DOMAIN kept |-> Message(kept[i])]
get_updates(items) == MessagesOf(SelectSeq(items, Accepted))

\* one turn of the while loop of start_polling up to the start of the for loop:
\* the platform answers ok with the updates at or after the offset and forgets
\* the older ones
GetUpdates ==
    /\ pollPc = "fetch"
    /\ ~botStop
    /\ platform' = AtOrAfter(platform, offset)
    /\ batch' = get_updates(platform')
    /\ fetched' = fetched \cup { platform'[i].update_id : i \in DOMAIN platform' }
    /\ pollPc' = IF batch' = << >> THEN "fetch" ELSE "dispatch"
    /\ UNCHANGED << clock, storeVars, nextUpdateId, senders, offset, last, sndVars, outbox, apiVars,
                    ctlVars, callVars >>

\* the request fails or the answer is not ok: the assert (or urlopen) raises
\* and the polling thread ends
GetUpdatesFails ==
    /\ pollPc = "fetch"
    /\ ~botStop
    /\ runs <= MaxRuns
    /\ pollPc' = "dead"
    /\ UNCHANGED << clock, storeVars, platform, nextUpdateId, senders, offset, batch, last, fetched,
                    sndVars, outbox, apiVars, ctlVars, callVars >>

\* An entry of outbox: the chat_id and text given to send_message and whether
\* the call returned (ok) or raised.  kind, ref, tick, at and due tell what was
\* sent: the reply to update ref, or the reminder with uid ref and due time
\* due, sent in the tick-th call of send_reminders at clock at.
Sent(chat_id, text, ok, kind, ref, tick, at, due) ==
    [chat_id |-> chat_id, text |-> text, ok |-> ok, kind |-> kind, ref |-> ref,
     tick |-> tick, at |-> at, due |-> due]

ReplySent(call, ok) == Sent(call.chat_id, call.reply, ok, "reply", call.update_id, 0, 0, << >>)

\* an on_message whose except clause leaves the reply alone (C10 fails under it)
Caught_replyKept(r) == [reply |-> r.reply, records |-> r.records, raised |-> r.raised]

\* try: reply = self.handler(message)  except Exception: reply = 'Error'
Caught(r) ==
    [reply |-> IF r.raised # "" THEN [s |-> "Error", a |-> << >>] ELSE r.reply,
     records |-> r.records, raised |-> r.raised]

\* on_message up to the call of send_message: the reply and the handler's effects
Dispatch(message) ==
    Caught(handle_message(message, records, clock, nextUid))

Handled(message, d) ==
    /\ records' = d.records
    /\ nextUid' = IF Cardinality(d.records) > Cardinality(records) THEN nextUid + 1 ELSE nextUid
    /\ last' = [update_id |-> message.update_id, chat_id |-> message.chat_id,
                text |-> message.text, now |-> clock, reply |-> d.reply,
                raised |-> d.raised, before |-> records, after |-> d.records]

\* offset = max(offset, message.update_id + 1)
NewOffset(off, update_id) == IF update_id + 1 > off THEN update_id + 1 ELSE off

\* one turn of the for loop of start_polling: on_message, then the new offset
OnMessage ==
    /\ pollPc = "dispatch"
    /\ Handled(Head(batch), Dispatch(Head(batch)))
    /\ outbox' = Append(outbox, ReplySent(last', TRUE))
    /\ offset' = NewOffset(offset, last'.update_id)
    /\ batch' = Tail(batch)
    /\ pollPc' = IF batch' = << >> THEN "fetch" ELSE "dispatch"
    /\ UNCHANGED << clock, platform, nextUpdateId, senders, fetched, sndVars, apiVars, ctlVars, callVars >>

\* the same turn when send_message raises: nothing catches it in the polling thread
OnMessageSendFails ==
    /\ pollPc = "dispatch"
    /\ runs <= MaxRuns
    /\ Handled(Head(batch), Dispatch(Head(batch)))
    /\ outbox' = Append(outbox, ReplySent(last', FALSE))
    /\ pollPc' = "dead"
    /\ UNCHANGED << clock, platform, nextUpdateId, senders, offset, batch, fetched, sndVars, apiVars,
                    ctlVars, callVars >>

(***************************************************************************)
(* reminder/sender.py                                                      *)
(***************************************************************************)
sleep_interval == 5

\* a loop whose try has no except clause: the error ends Sender.start (C20
\* fails under it)
AfterTick_uncaught(raised) == IF raised # "" THEN "done" ELSE "sleep"

\* Sender.start after send_reminders: except Exception logs what was raised,
\* and self.sleep() is next either way
AfterTick(raised) == "sleep"

\* Sender.send_reminders calls process_ready_to_send() without the now its
\* signature requires: the call raises TypeError before the store is read,
\* and Sender.start logs it
send_reminders ==
    /\ sndPc = "run"
    /\ ~sndStop
    /\ sndErr' = "TypeError"
    /\ sndPc' = AfterTick(sndErr')
    /\ UNCHANGED << clock, storeVars, pollVars, sndRows, sndNow, sndDone, sndTick, outbox, apiVars,
                    ctlVars, callVars >>

\* Sender.sleep returns and the while loop of Sender.start goes round
Wake ==
    /\ sndPc = "sleep"
    /\ sndPc' = "run"
    /\ UNCHANGED << clock, storeVars, pollVars, sndRows, sndNow, sndDone, sndTick, sndErr,
                    outbox, apiVars, ctlVars, callVars >>

Next ==
    \/ Advance
    \/ NewUpdate
    \/ GetUpdates
    \/ GetUpdatesFails
    \/ OnMessage
    \/ OnMessageSendFails
    \/ send_reminders
    \/ Wake

Spec == Init /\ [][Next]_vars

(***************************************************************************)
(* Direct calls of the store (DB.save_reminder, DB.remove_reminder)        *)
(***************************************************************************)
\* db.save_reminder(chat_id, when, Body) for a chat of chats and a when of whens
SaveFor(chats, whens) ==
    /\ nextUid <= MaxRecords
    /\ \E chat_id \in chats, when \in whens :
          records' = save_reminder(records, chat_id, when, Body, nextUid)
    /\ nextUid' = nextUid + 1
    /\ UNCHANGED << clock, pollVars, sndVars, outbox, apiVars, ctlVars, callVars >>

\* db.remove_reminder(record_id) for a record_id that is in the table
Remove ==
    /\ \E record_id \in 1..MaxRecords :
          /\ remove_reminder(records, record_id).removed
          /\ records' = remove_reminder(records, record_id).records
    /\ UNCHANGED << clock, nextUid, pollVars, sndVars, outbox, apiVars, ctlVars, callVars >>

\* is_removed = db.remove_reminder(record_id) for any record_id, in the table
\* or not
RemoveCall ==
    /\ \E record_id \in 1..MaxRecords :
          /\ records' = remove_reminder(records, record_id).records
          /\ rm' = [id |-> record_id, removed |-> remove_reminder(records, record_id).removed,
                    before |-> records, after |-> records']
    /\ UNCHANGED << clock, nextUid, pollVars, sndVars, outbox, apiVars, ctlVars, parsed, matched >>

(***************************************************************************)
(* src/bot.py: the legacy Sender on the legacy DB                          *)
(***************************************************************************)
\* with self.db.process_ready_to_send() as rows:  up to the yield
LegacyEnter ==
    /\ sndPc = "run"
    /\ ~sndStop
    /\ sndNow' = clock
    /\ sndRows' = SelectReady(records, clock)
    /\ sndDone' = 0
    /\ sndTick' = IF sndRows' # << >> THEN sndTick + 1 ELSE sndTick
    /\ sndPc' = "send"
    /\ UNCHANGED << clock, storeVars, pollVars, sndErr, outbox, apiVars, ctlVars, callVars >>

ReminderSent(row, ok) ==
    Sent(row.chat_id, [s |-> "reminder", a |-> row.reminder], ok, "reminder", row.uid,
         sndTick, clock, row.datetime)

\* one turn of the for loop: self.bot.send_message(chat_id, reminder) returns
LegacySend ==
    /\ sndPc = "send"
    /\ sndDone < Len(sndRows)
    /\ Len(outbox) < MaxOutbox
    /\ outbox' = Append(outbox, ReminderSent(sndRows[sndDone + 1], TRUE))
    /\ sndDone' = sndDone + 1
    /\ UNCHANGED << clock, storeVars, pollVars, sndPc, sndRows, sndNow, sndTick, sndErr, apiVars, ctlVars, callVars >>

\* send_message raises: the exception leaves the with block through the yield,
\* the update is not run, and Sender.start logs it
LegacySendFails ==
    /\ sndPc = "send"
    /\ sndDone < Len(sndRows)
    /\ Len(outbox) < MaxOutbox
    /\ outbox' = Append(outbox, ReminderSent(sndRows[sndDone + 1], FALSE))
    /\ sndErr' = "SendError"
    /\ sndPc' = "sleep"
    /\ UNCHANGED << clock, storeVars, pollVars, sndRows, sndNow, sndDone, sndTick, apiVars, ctlVars, callVars >>

\* the for loop is over: process_ready_to_send goes on after the yield
LegacyExit ==
    /\ sndPc = "send"
    /\ sndDone = Len(sndRows)
    /\ records' = AfterYield(records, sndRows, sndNow)
    /\ sndPc' = "sleep"
    /\ UNCHANGED << clock, nextUid, pollVars, sndRows, sndNow, sndDone, sndTick, sndErr,
                    outbox, apiVars, ctlVars, callVars >>

NextLegacy ==
    \/ Advance
    \/ SaveFor({ 1 }, { StartClock, StartClock + 1 })
    \/ Remove
    \/ LegacyEnter
    \/ LegacySend
    \/ LegacySendFails
    \/ LegacyExit
    \/ Wake

SpecLegacy == Init /\ [][NextLegacy]_vars

(***************************************************************************)
(* reminder/db.py: callers of process_ready_to_send(now)                   *)
(***************************************************************************)
UidsOf(rows) == { rows[i].uid : i \in DOMAIN rows }

\* with db.process_ready_to_send(now) as rows:  up to the yield
Enter(p) ==
    /\ ~inv[p].open
    /\ inv' = [inv EXCEPT ![p] = [open |-> TRUE, now |-> clock,
                                  rows |-> SelectReady(records, clock)]]
    /\ UNCHANGED << clock, storeVars, pollVars, sndVars, outbox, doneBy, ctlVars, callVars >>

\* the with body returns: the update and the commit run
Exit(p) ==
    /\ inv[p].open
    /\ records' = AfterYield(records, inv[p].rows, inv[p].now)
    /\ inv' = [inv EXCEPT ![p] = Idle]
    /\ doneBy' = [uid \in DOMAIN doneBy |->
                    IF uid \in UidsOf(inv[p].rows) THEN doneBy[uid] + 1 ELSE doneBy[uid]]
    /\ UNCHANGED << clock, nextUid, pollVars, sndVars, outbox, ctlVars, callVars >>

\* the with body raises: nothing is marked
ExitRaised(p) ==
    /\ inv[p].open
    /\ inv' = [inv EXCEPT ![p] = Idle]
    /\ UNCHANGED << clock, storeVars, pollVars, sndVars, outbox, doneBy, ctlVars, callVars >>

NoneOpen == \A p \in Callers : ~inv[p].open

NextStore ==
    \/ Advance
    \/ SaveFor(Chats, DueTimes)
    \/ Remove
    \/ \E p \in Callers : Enter(p)
    \/ \E p \in Callers : Exit(p)
    \/ \E p \in Callers : ExitRaised(p)

SpecStore == Init /\ [][NextStore]_vars

\* the calls made one after the other: none starts while a with block is
\* open; remove_reminder is called with any id
NextStoreSeq ==
    \/ NoneOpen /\ Advance
    \/ NoneOpen /\ SaveFor(Chats, DueTimes)
    \/ NoneOpen /\ RemoveCall
    \/ NoneOpen /\ \E p \in Callers : Enter(p)
    \/ \E p \in Callers : Exit(p)
    \/ \E p \in Callers : ExitRaised(p)

SpecStoreSeq == Init /\ [][NextStoreSeq]_vars

(***************************************************************************)
(* reminder/sender.py: Sender.start second by second, and Sender.stop      *)
(***************************************************************************)
\* Sender.sleep, one turn of its for loop: the flag is down, time.sleep(1)
SleepSecond ==
    /\ sndPc = "sleep"
    /\ slept < sleep_interval
    /\ ~sndStop
    /\ slept' = slept + 1
    /\ UNCHANGED << clock, storeVars, pollVars, sndVars, outbox, apiVars,
                    supPc, runs, admin, botStop, sndStop, callVars >>

\* Sender.sleep returns: the range is used up, or the flag is up and the loop
\* breaks
SleepEnds ==
    /\ sndPc = "sleep"
    /\ (slept = sleep_interval \/ sndStop)
    /\ sndPc' = "run"
    /\ slept' = 0
    /\ UNCHANGED << clock, storeVars, pollVars, sndRows, sndNow, sndDone, sndTick, sndErr,
                    outbox, apiVars, supPc, runs, admin, botStop, sndStop, callVars >>

\* a loop that never looks at its flag (C21 fails under it)
LoopOver_never(stopping) == FALSE

\* while not self._is_stopping: the loop is over when the flag is up
LoopOver(stopping) == stopping

\* while not self._is_stopping: the flag is up and Sender.start returns
SenderExits ==
    /\ sndPc = "run"
    /\ LoopOver(sndStop)
    /\ sndPc' = "done"
    /\ UNCHANGED << clock, storeVars, pollVars, sndRows, sndNow, sndDone, sndTick, sndErr,
                    outbox, apiVars, ctlVars, callVars >>

\* Sender.stop, called from another thread
SenderStop ==
    /\ ~sndStop
    /\ sndStop' = TRUE
    /\ UNCHANGED << clock, storeVars, pollVars, sndVars, outbox, apiVars,
                    supPc, runs, admin, botStop, slept, callVars >>

SenderThread == send_reminders \/ SleepSecond \/ SleepEnds \/ SenderExits

NextSender ==
    \/ Advance
    \/ SaveFor({ 1 }, { StartClock, StartClock + 1 })
    \/ send_reminders
    \/ SleepSecond
    \/ SleepEnds
    \/ SenderExits
    \/ SenderStop

\* the thread of Sender.start is scheduled and time.sleep(1) returns
SpecSender == Init /\ [][NextSender]_vars /\ WF_vars(SenderThread)

(***************************************************************************)
(* reminder/__main__.py: the supervision loop                              *)
(***************************************************************************)
\* not bot_thread.is_alive() or not sender_thread.is_alive(), with no stop
\* requested: a thread has ended on an error
ThreadDead == pollPc = "dead" \/ sndPc = "dead"

\* a supervisor without contextlib.suppress: a failed notification ends it
\* (C11 fails under it)
AfterNotify_raises(ok) == IF ok THEN "backoff" ELSE "crashed"

\* with contextlib.suppress(Exception): whether send_message returned or
\* raised, the warning and time.sleep(60) are next
AfterNotify(ok) == "backoff"

NotifySent(ok) == Sent(admin, [s |-> "Error", a |-> << >>], ok, "notify", 0, 0, 0, << >>)

\* time.sleep(1) returns and the if finds a thread that is not alive
SupNotices ==
    /\ supPc = "watch"
    /\ ThreadDead
    /\ supPc' = IF admin # None THEN "notify" ELSE "backoff"
    /\ UNCHANGED << clock, storeVars, pollVars, sndVars, outbox, apiVars,
                    runs, admin, botStop, sndStop, slept, callVars >>

\* bot.send_message(args.admin_chat_id, 'Error') returns, or raises
Notify ==
    /\ supPc = "notify"
    /\ \E ok \in BOOLEAN :
          /\ outbox' = Append(outbox, NotifySent(ok))
          /\ supPc' = AfterNotify(ok)
    /\ UNCHANGED << clock, storeVars, pollVars, sndVars, apiVars,
                    runs, admin, botStop, sndStop, slept, callVars >>

\* logger.warning(...); time.sleep(60) returns
Backoff ==
    /\ supPc = "backoff"
    /\ supPc' = "exec"
    /\ UNCHANGED << clock, storeVars, pollVars, sndVars, outbox, apiVars,
                    runs, admin, botStop, sndStop, slept, callVars >>

\* os.execv(sys.executable, [sys.executable] + sys.argv): the process starts
\* again with the same arguments and the same db file; its threads and what
\* they held are gone, the platform keeps its queue
Restart ==
    /\ supPc = "exec"
    /\ runs' = runs + 1
    /\ supPc' = "watch"
    /\ pollPc' = "fetch"
    /\ offset' = 1
    /\ batch' = << >>
    /\ last' = NoCall
    /\ fetched' = {}
    /\ sndPc' = "run"
    /\ sndRows' = << >>
    /\ sndNow' = 0
    /\ sndDone' = 0
    /\ sndTick' = 0
    /\ sndErr' = ""
    /\ slept' = 0
    /\ UNCHANGED << clock, storeVars, platform, nextUpdateId, senders, outbox, apiVars,
                    admin, botStop, sndStop, callVars >>

Supervisor == SupNotices \/ Notify \/ Backoff \/ Restart

\* what alice sends while the supervisor is watched
SupInputs == { << "alice", SetText >> }

InitSup == Booted /\ admin \in Admins

NextSup ==
    \/ NewUpdateFrom(SupInputs)
    \/ GetUpdates
    \/ GetUpdatesFails
    \/ OnMessage
    \/ OnMessageSendFails
    \/ send_reminders
    \/ Wake
    \/ SupNotices
    \/ Notify
    \/ Backoff
    \/ Restart

\* the main thread is scheduled, its sleeps return and send_message returns
\* or raises
SpecSup == InitSup /\ [][NextSup]_vars /\ WF_vars(Supervisor)

(***************************************************************************)
(* reminder/__main__.py: shutdown                                          *)
(***************************************************************************)
\* KeyboardInterrupt or EOFError is raised in the try block, wherever the main
\* thread is in it: the supervision loop is left and 'Shutdown' is logged
Interrupt ==
    /\ supPc \in { "watch", "notify", "backoff", "exec" }
    /\ supPc' = "shutdown"
    /\ UNCHANGED << clock, storeVars, pollVars, sndVars, outbox, apiVars,
                    runs, admin, botStop, sndStop, slept, callVars >>

\* bot.stop()
ShutdownBot ==
    /\ supPc = "shutdown"
    /\ botStop' = TRUE
    /\ supPc' = "stopSender"
    /\ UNCHANGED << clock, storeVars, pollVars, sndVars, outbox, apiVars,
                    runs, admin, sndStop, slept, callVars >>

\* sender.stop(), and the main thread ends
ShutdownSender ==
    /\ supPc = "stopSender"
    /\ sndStop' = TRUE
    /\ supPc' = "exited"
    /\ UNCHANGED << clock, storeVars, pollVars, sndVars, outbox, apiVars,
                    runs, admin, botStop, slept, callVars >>

\* while not self._is_stopping of start_polling: the for loop is over, the
\* flag is up and start_polling returns
PollExits ==
    /\ pollPc = "fetch"
    /\ LoopOver(botStop)
    /\ pollPc' = "done"
    /\ UNCHANGED << clock, storeVars, platform, nextUpdateId, senders, offset, batch, last, fetched,
                    sndVars, outbox, apiVars, ctlVars, callVars >>

PollThread == GetUpdates \/ GetUpdatesFails \/ OnMessage \/ OnMessageSendFails \/ PollExits

\* what alice sends while the process is shut down
ShutdownInputs == { << "alice", ListText >> }

NextShutdown ==
    \/ NewUpdateFrom(ShutdownInputs)
    \/ GetUpdates
    \/ GetUpdatesFails
    \/ OnMessage
    \/ OnMessageSendFails
    \/ PollExits
    \/ send_reminders
    \/ SleepSecond
    \/ SleepEnds
    \/ SenderExits
    \/ SupNotices
    \/ Backoff
    \/ Restart
    \/ Interrupt
    \/ ShutdownBot
    \/ ShutdownSender

\* started without --admin-chat-id; both threads are scheduled; get_updates,
\* send_message and time.sleep(1) return or raise
SpecShutdown ==
    Init /\ [][NextShutdown]_vars /\ WF_vars(PollThread) /\ WF_vars(SenderThread)

(***************************************************************************)
(* Direct calls of parse_reminder(now, text)                               *)
(***************************************************************************)
\* the date and time phrases a text is made of
Phrases == {
    << W("cherez"), Num(1), W("min") >>,
    << W("cherez"), Num(2), W("chasa") >>,
    << W("cherez"), Num(2), W("dnya") >>,
    << W("zavtra") >>,
    << W("v"), W("vt") >>,
    << Num(5), W("maya") >>,
    << W("v"), Num(12), Num(30) >>,
    << W("v"), Num(0) >>,
    << W("v"), Num(25) >> }

\* the texts of up to n phrases
RECURSIVE PhrasesUpTo(_)
PhrasesUpTo(n) ==
    IF n = 0 THEN { << >> }
    ELSE PhrasesUpTo(n - 1) \cup { t \o p : t \in PhrasesUpTo(n - 1), p \in Phrases }

\* up to MaxPhrases phrases and then the word "a"
ParserTexts == { t \o Body : t \in PhrasesUpTo(MaxPhrases) }

\* Tuesday 26 May 2020 at 12:30, and the last minute of 2020
ParserNows == { StartClock, Combine(MkDate(2020, 12, 31), MkTime(23, 59)) }

Called(now, text, p) ==
    [now |-> now, text |-> text, err |-> p.err, when |-> p.when, what |-> p.what]

\* when, what = parse_reminder(now, text), once
Parse ==
    /\ parsed = NoParse
    /\ \E now \in ParserNows, text \in ParserTexts :
          parsed' = Called(now, text, parse_reminder(now, text))
    /\ UNCHANGED << clock, storeVars, pollVars, sndVars, outbox, apiVars, ctlVars, rm, matched >>

NextParser == Parse

SpecParser == Init /\ [][NextParser]_vars

(***************************************************************************)
(* Direct calls of p_weekday(now, text) and p_monthday(now, text)          *)
(***************************************************************************)
\* the week from Monday 25 May 2020, and days around the ends of February
\* and of the year in a leap year and in a common year
MatcherDates ==
    { MkDate(2020, 5, d) : d \in 25..31 } \cup
    { MkDate(2020, 1, 1), MkDate(2020, 2, 29), MkDate(2020, 3, 1), MkDate(2020, 12, 31),
      MkDate(2021, 2, 28), MkDate(2021, 12, 31) }

MatcherNows == { Combine(date, MkTime(12, 30)) : date \in MatcherDates }

\* "v <weekday> a" for every weekday, "<day> <month> a" for every month
MatcherDays == { 1, 26, 28, 29, 30, 31, 32 }
MatcherTexts ==
    { << W("v"), W(week_days[n]) >> \o Body : n \in DOMAIN week_days } \cup
    { << Num(day), W(month_names[n]) >> \o Body : day \in MatcherDays, n \in DOMAIN month_names }

\* p_weekday(now, text) or p_monthday(now, text), once
Match ==
    /\ matched = NoMatcherCall
    /\ \E k \in { 5, 6 }, now \in MatcherNows, text \in MatcherTexts :
          matched' = [k |-> k, now |-> now, text |-> text, rv |-> Parser(k, now, text)]
    /\ UNCHANGED << clock, storeVars, pollVars, sndVars, outbox, apiVars, ctlVars, rm, parsed >>

NextMatcher == Match

SpecMatcher == Init /\ [][NextMatcher]_vars

(***************************************************************************)
(* Direct calls of handle_message(message, db)                             *)
(***************************************************************************)
\* one text for every reply of handle_message and handle_command: a reminder
\* for 12:30, a date with no body, a date that has passed, no date, an hour
\* that does not exist, /list, /remove1, /remove2, /remove and /start
RouterTexts == {
    SetText,
    << W("v"), Num(12), Num(30) >>,
    << W("v"), W("vt"), W("a") >>,
    << W("a") >>,
    << W("v"), Num(25), W("a") >>,
    ListText,
    RemoveText,
    << Cmd("remove", 2, 1) >>,
    << Cmd("remove", 0, 0) >>,
    << Cmd("start", 0, 0) >> }

RouteOne(message) == Handled(message, handle_message(message, records, clock, nextUid))

\* reply = handle_message(message, db) for a message of either chat
Route ==
    /\ nextUpdateId <= MaxUpdates
    /\ \E chat_id \in Chats, text \in RouterTexts :
          RouteOne([update_id |-> nextUpdateId, chat_id |-> chat_id, text |-> text])
    /\ nextUpdateId' = nextUpdateId + 1
    /\ UNCHANGED << clock, platform, senders, pollPc, offset, batch, fetched, sndVars, outbox,
                    apiVars, ctlVars, callVars >>

NextRouter ==
    \/ Advance
    \/ SaveFor(Chats, { StartClock + 1 })
    \/ Route

SpecRouter == Init /\ [][NextRouter]_vars

(***************************************************************************)
(* Properties                                                              *)
(***************************************************************************)
\* the entries of outbox that are reminders, and those that are replies
ReminderEntries == { i \in DOMAIN outbox : outbox[i].kind = "reminder" }
ReplyEntries == { i \in DOMAIN outbox : outbox[i].kind = "reply" }

\* the entries of a call of send_reminders for the row r
SentFor(r, entries, from) ==
    { i \in DOMAIN entries : /\ i > from
                             /\ entries[i].kind = "reminder"
                             /\ entries[i].ref = r.uid
                             /\ entries[i].chat_id = r.chat_id
                             /\ entries[i].text.a = r.reminder }

\* C1 (as stated; violated): a call of Sender.send_reminders that runs at a
\* clock later than the due time of a record the Router saved, the record
\* being still in the table and unsent, sends exactly one message with the
\* record's body to the record's chat.
C1_TickDelivers ==
    [][ (sndPc = "run" /\ sndPc' = "sleep") =>
            \A r \in records :
                ReadyToSend(r, clock) => Cardinality(SentFor(r, outbox', Len(outbox))) = 1 ]_vars

\* C2 (as stated; violated): over the ticks of the legacy Sender, no reminder
\* record is passed to send_message twice; a record that was in a tick in
\* which a send failed is not passed again by a later tick.
C2_AtMostOnce == \A i, j \in ReminderEntries : outbox[i].ref = outbox[j].ref => i = j

\* C3 (as stated; violated): under any interleaving of invocations of
\* process_ready_to_send that all complete normally, no row is returned by two
\* of them.
C3_ReturnedByOneInvocation == \A uid \in DOMAIN doneBy : doneBy[uid] <= 1

\* C4: whenever the Sender passes a reminder to send_message, the clock is at
\* or after the due time of the record.
C4_NotEarly == \A i \in ReminderEntries : FromIsoFormat(outbox[i].due) <= outbox[i].at

\* C4 witness: a reminder has been sent while a record that was not yet past
\* due at that moment waits unsent
C4_SentWhileOtherWaits ==
    \E i \in ReminderEntries :
        /\ outbox[i].ok
        /\ \E r \in records : r.sent = 0 /\ FromIsoFormat(r.datetime) >= outbox[i].at

\* the rows of the table that are due before now and that no invocation that
\* completed normally has returned
DueNeverReturned(now) ==
    { r \in records : TextLess(r.datetime, IsoFormat(now)) /\ doneBy[r.uid] = 0 }

\* C5: with the calls made one after the other and the with bodies returning
\* normally, a process_ready_to_send(as_of) returns each saved row that is due
\* before as_of and was never returned, once and with its chat and body, and
\* no row that an earlier invocation returned: no row is returned twice.
C5_RoundTrip ==
    /\ \A uid \in DOMAIN doneBy : doneBy[uid] <= 1
    /\ \A p \in Callers :
          inv[p].open =>
              /\ UidsOf(inv[p].rows) = { r.uid : r \in DueNeverReturned(inv[p].now) }
              /\ Cardinality(UidsOf(inv[p].rows)) = Len(inv[p].rows)
              /\ \A i \in DOMAIN inv[p].rows :
                    \E r \in records : /\ r.uid = inv[p].rows[i].uid
                                       /\ r.chat_id = inv[p].rows[i].chat_id
                                       /\ r.reminder = inv[p].rows[i].reminder

\* C5 witness: a row that an invocation returned is still in the table, past
\* due, while a later invocation is open and has not got it
C5_SecondCallOmits ==
    \E r \in records, p \in Callers :
        /\ doneBy[r.uid] = 1
        /\ inv[p].open
        /\ TextLess(r.datetime, IsoFormat(inv[p].now))
        /\ r.uid \notin UidsOf(inv[p].rows)

\* C6: for every update whose sender is not in allowed_usernames, the handler
\* is not called for it, no message is sent to its chat, no record of its chat
\* exists, and the table is as the latest handler call (for an accepted
\* message) left it.
C6_AllowListIsolation ==
    /\ records = last.after
    /\ \A u \in DOMAIN senders :
          senders[u] \notin allowed_usernames =>
              /\ last.update_id # u
              /\ \A i \in DOMAIN outbox :
                    /\ outbox[i].chat_id # ChatOf(senders[u])
                    /\ ~(outbox[i].kind = "reply" /\ outbox[i].ref = u)
              /\ \A r \in records : r.chat_id # ChatOf(senders[u])

\* C6 witness: get_updates has received an update of a sender outside the
\* allow-list, and the handler has since been called for a later update
C6_UnauthorizedSkipped ==
    \E u \in fetched : senders[u] \notin allowed_usernames /\ last.update_id > u

\* C7 (as stated; violated): a record leaves the table in a handler call only
\* when the message is the /remove command with its id, sent from the chat the
\* record belongs to.
C7_RemovedByOwner ==
    \A r \in last.before :
        (\A x \in last.after : x.uid # r.uid) =>
            /\ last.chat_id = r.chat_id
            /\ StartsWithSlash(last.text)
            /\ last.text[1].s = "remove"
            /\ RecordId(last.text, last.text[1]) = r.id

\* the parser gave a due time earlier than now and a body that is not empty
PastDue(p, now) == p.err = "" /\ p.what # << >> /\ p.when < now

\* C8: a message whose parsed due time is earlier than the now of the call and
\* whose body is not empty is answered "Date is in the past" and leaves the
\* table as it was; every record a handler call adds has a due time that is
\* not earlier than the now of that call.
C8_PastDueRejected ==
    /\ (last.update_id # 0 /\ ~StartsWithSlash(last.text)
            /\ PastDue(parse_reminder(last.now, last.text), last.now))
        => (last.reply.s = "Date is in the past" /\ last.after = last.before)
    /\ \A r \in last.after \ last.before : FromIsoFormat(r.datetime) >= last.now

\* C8 witness: the latest handler call answered "Date is in the past"
C8_Rejected == last.reply.s = "Date is in the past" /\ last.raised = ""

\* C9 (as stated; violated): when the parser cannot give a due time for the
\* text of a message, handle_message returns "Could not parse date" and no
\* exception leaves it.
C9_ParseFailureReplied ==
    (last.update_id # 0 /\ ~StartsWithSlash(last.text)
        /\ parse_reminder(last.now, last.text).err # "")
    => (last.raised = "" /\ last.reply.s = "Could not parse date")

\* C10: when the handler raises for an accepted message, on_message passes
\* exactly one reply for it to send_message, with the text "Error" and the
\* chat of the message, and when that send returns the polling loop goes on:
\* the message leaves the batch and the offset moves past it.
C10_FaultContained ==
    [][ (last' # last /\ last'.raised # "") =>
            /\ outbox' = Append(outbox, outbox'[Len(outbox')])
            /\ outbox'[Len(outbox')].kind = "reply"
            /\ outbox'[Len(outbox')].ref = last'.update_id
            /\ outbox'[Len(outbox')].chat_id = last'.chat_id
            /\ outbox'[Len(outbox')].text = [s |-> "Error", a |-> << >>]
            /\ Cardinality({ i \in DOMAIN outbox' : /\ outbox'[i].kind = "reply"
                                                    /\ outbox'[i].ref = last'.update_id }) = 1
            /\ outbox'[Len(outbox')].ok =>
                  /\ pollPc' \in { "fetch", "dispatch" }
                  /\ batch' = Tail(batch)
                  /\ offset' > last'.update_id ]_vars

\* C10 witness: an "Error" reply was sent for a message whose handler raised,
\* and the handler has since been called for a later update
C10_WentOn ==
    \E i \in ReplyEntries :
        /\ outbox[i].text.s = "Error"
        /\ outbox[i].ok
        /\ last.update_id > outbox[i].ref

\* the ids list_unsent gives for a chat
ListedIds(rows) == { rows[i][1] : i \in DOMAIN rows }

\* C12: remove_reminder(id) on a table that holds a record with that id
\* returns true and deletes that one record (list_unsent of no chat gives it
\* any more) and leaves every other record as it was; on a table without such
\* a record it returns false and leaves the table as it was.
C12_RemoveFrame ==
    rm.id # 0 =>
        IF \E r \in rm.before : r.id = rm.id
        THEN /\ rm.removed
             /\ rm.after \subseteq rm.before
             /\ Cardinality(rm.before \ rm.after) = 1
             /\ \A r \in rm.before \ rm.after : r.id = rm.id
             /\ \A c \in Chats : rm.id \notin ListedIds(list_unsent(rm.after, c))
        ELSE ~rm.removed /\ rm.after = rm.before

\* C12 witness: a record was removed from a table that held another one
C12_RemovedOneOfTwo == rm.removed /\ rm.after # {}

\* what list_unsent(c) has to give on the table recs: a row for each record of
\* chat c that no completed due-selection has returned and marked, and only
\* for those, with the record's due time and body
ListsUnsentOf(rows, recs, c) ==
    /\ ListedIds(rows) = { r.id : r \in { x \in recs : x.chat_id = c /\ x.sent = 0 } }
    /\ Cardinality(ListedIds(rows)) = Len(rows)
    /\ \A i \in DOMAIN rows :
          \E r \in recs : /\ r.id = rows[i][1]
                          /\ r.chat_id = c
                          /\ r.sent = 0
                          /\ doneBy[r.uid] = 0
                          /\ rows[i][2] = FromIsoFormat(r.datetime)
                          /\ rows[i][3] = r.reminder

\* C13: after any sequence of save, due-selection and remove calls,
\* list_unsent(c) gives exactly the stored records of chat c whose sent flag
\* is 0: no record that a due-selection marked sent, no record of another chat.
C13_ListUnsent == \A c \in Chats : ListsUnsentOf(list_unsent(records, c), records, c)

\* C13 witness: a chat has a record marked sent and a record not marked
C13_SentAndUnsent ==
    \E r, x \in records : r.chat_id = x.chat_id /\ r.sent = 1 /\ x.sent = 0

\* C18: in every step, a record that stays in the table keeps its id, chat_id,
\* datetime and reminder, and its sent flag does not go from 1 to 0.
C18_RecordImmutable ==
    [][ \A r \in records, x \in records' :
            x.uid = r.uid => /\ x.id = r.id
                             /\ x.chat_id = r.chat_id
                             /\ x.datetime = r.datetime
                             /\ x.reminder = r.reminder
                             /\ x.sent >= r.sent ]_vars

\* C18 witness: a record that was in the table, unsent, when another record
\* was removed has since been marked sent
C18_SentKept ==
    \E r \in records, x \in rm.after : rm.removed /\ x.uid = r.uid /\ x.sent = 0 /\ r.sent = 1

\* the records a call of send_reminders has passed to send_message
Attempted(entries, tick) ==
    { entries[i].ref : i \in { j \in DOMAIN entries : /\ entries[j].kind = "reminder"
                                                      /\ entries[j].tick = tick } }

\* C16 (as stated; violated): when a call of send_reminders ends, send_message
\* has been attempted for every row its due-selection returned, also when the
\* send of one of them failed.
C16_BatchNotAborted ==
    [][ (sndPc = "send" /\ sndPc' = "sleep") =>
            UidsOf(sndRows) \subseteq Attempted(outbox', sndTick) ]_vars

\* the records whose sent flag a step turns from 0 to 1
Flipped(old, new) ==
    { x.uid : x \in { y \in new : y.sent = 1 /\ \E r \in old : r.uid = y.uid /\ r.sent = 0 } }

\* C17 (as stated; violated): under any interleaving with saves, the records
\* whose sent flag an invocation of process_ready_to_send turns to 1 are
\* records that invocation returned: none becomes sent without having been
\* returned.
C17_MarksWhatItReturned ==
    [][ \A p \in Callers :
            (inv[p].open /\ ~inv'[p].open) =>
                Flipped(records, records') \subseteq UidsOf(inv[p].rows) ]_vars

\* the highest update_id the platform has returned so far (0 for none)
HighestSeen == MaxOf(fetched \cup { 0 })

\* C19 (as stated; violated): whenever start_polling is about to fetch, its
\* offset is one past the highest update_id the platform has returned so far,
\* whether or not that update passed the filter of get_updates.
C19_OffsetPastHighestSeen == pollPc = "fetch" => offset = HighestSeen + 1

\* The matches of the matchers, tried in their order on the text as the
\* earlier matches have cut it, up to the first matcher that raises.
RECURSIVE Fired(_, _, _)
FiredWith(now, text, k, rv) ==
    IF ~rv.hit THEN Fired(now, text, k + 1)
    ELSE IF rv.err # "" THEN << rv >>
    ELSE << rv >> \o Fired(now, CutSpan(text, rv), k + 1)

Fired(now, text, k) ==
    IF k > NumParsers THEN << >> ELSE FiredWith(now, text, k, Parser(k, now, text))

\* the matches that populate a field
Populating(hits) == SelectSeq(hits, LAMBDA rv : rv.err = "")

SameField(a, b) ==
    \/ (a.date # None /\ b.date # None)
    \/ (a.delta # None /\ b.delta # None)
    \/ (a.time # None /\ b.time # None)

\* two matches populate the same field, or one populates delta and another
\* date or time
Conflicting(hits) ==
    \E i, j \in DOMAIN hits :
        \/ (i < j /\ SameField(hits[i], hits[j]))
        \/ (hits[i].delta # None /\ (hits[j].date # None \/ hits[j].time # None))

\* C14 (as stated; violated): whenever the matchers that fire populate delta
\* together with date or time, or two of them populate the same field,
\* parse_reminder fails with ParseError.
C14_ConflictsFail ==
    (parsed # NoParse /\ Conflicting(Populating(Fired(parsed.now, parsed.text, 1))))
        => parsed.err = "ParseError"

\* the fields the matches populate (None when no match populates the field)
FieldOf(hits, field) ==
    IF \E i \in DOMAIN hits : hits[i][field] # None
    THEN hits[CHOOSE i \in DOMAIN hits : hits[i][field] # None][field]
    ELSE None

\* the reference resolution of a delta, a date and a time of day at now
RefWhen(delta, date, time, now) ==
    IF delta # None THEN now + delta
    ELSE IF date # None THEN date * 1440 + (IF time # None THEN time ELSE 12 * 60)
    ELSE IF (now \div 1440) * 1440 + time < now THEN (now \div 1440 + 1) * 1440 + time
    ELSE (now \div 1440) * 1440 + time

Resolves(hits, call) ==
    /\ hits # << >>
    /\ call.when = RefWhen(FieldOf(hits, "delta"), FieldOf(hits, "date"),
                           FieldOf(hits, "time"), call.now)
    /\ (FieldOf(hits, "delta") = None /\ FieldOf(hits, "date") = None)
           => (call.now <= call.when /\ call.when < call.now + 1440)

\* C15: when parse_reminder succeeds, its timestamp is now + delta when a
\* delta matched, else the matched date at the matched time of day or at 12:00
\* when none matched, else today at the matched time of day, a day later
\* exactly when that is earlier than now (so within 24 hours from now); when
\* no matcher fires it fails with ParseError.
C15_Resolution ==
    /\ (parsed # NoParse /\ parsed.err = "")
           => Resolves(Populating(Fired(parsed.now, parsed.text, 1)), parsed)
    /\ (parsed # NoParse /\ Fired(parsed.now, parsed.text, 1) = << >>)
           => parsed.err = "ParseError"

\* C15 witness: a text with only a time of day that has passed today is
\* resolved to tomorrow
C15_RolledToTomorrow ==
    /\ parsed.err = ""
    /\ parsed.text = << W("v"), Num(0), W("a") >>
    /\ DateOfDT(parsed.when) = DateOfDT(parsed.now) + 1

\* C20: Sender.start returns only after stop() was called; a tick that raises
\* is followed by the sleep and never by the end of the loop; the sleep is
\* left for the head of the loop only when sleep_interval seconds were slept
\* or stop() was called, and it is always left.
C20_LoopEndsOnlyOnStop ==
    /\ [][ /\ (sndPc # "done" /\ sndPc' = "done") => (sndStop /\ sndPc = "run")
           /\ (sndErr' # sndErr) => (sndPc = "run" /\ sndPc' = "sleep" /\ ~sndStop)
           /\ (sndPc = "sleep" /\ sndPc' # "sleep") =>
                  (sndPc' = "run" /\ (slept = sleep_interval \/ sndStop)) ]_vars
    /\ (sndPc = "sleep") ~> (sndPc = "run")

\* C20 witness: a tick has raised, the whole interval was slept with no stop
\* requested, and the loop is at its head for the next tick
C20_NextTickDue ==
    /\ sndErr = "TypeError"
    /\ sndPc = "run"
    /\ ~sndStop
    /\ slept = 0

\* C11: whenever a loop has ended with no stop requested, the process is
\* eventually started again, with or without an admin chat and whether the
\* "Error" notification was sent or failed; and a new start happens only after
\* a thread has ended, and puts both loops and the supervisor at their start.
C11_Restarts ==
    /\ \A n \in 1..MaxRuns : (ThreadDead /\ runs = n) ~> (runs = n + 1)
    /\ [][ runs' # runs =>
              /\ ThreadDead
              /\ runs' = runs + 1
              /\ pollPc' = "fetch" /\ offset' = 1 /\ sndPc' = "run" /\ supPc' = "watch"
              /\ records' = records /\ platform' = platform ]_vars

\* C11 witness: with an admin chat configured the notification failed, and
\* the process was started again
C11_RestartedAfterFailedNotice ==
    /\ runs = 2
    /\ admin # None
    /\ \E i \in DOMAIN outbox : outbox[i].kind = "notify" /\ ~outbox[i].ok

\* the month a month name stands for, and the weekday (Monday 0) a weekday
\* name stands for
MonthNamed(word) == CHOOSE m \in DOMAIN month_names : month_names[m] = word
WeekdayNamed(word) == (CHOOSE n \in DOMAIN week_days : week_days[n] = word) - 1

\* what the month-day matcher is to give for day d of month m on today, in
\* year y
MonthdayAsClaimed(rv, d, m, today, y) ==
    IF ~ValidDate(y, m, d) THEN rv.err = "ParseError"
    ELSE /\ rv.err = ""
         /\ rv.date = (IF MkDate(y, m, d) >= today THEN MkDate(y, m, d) ELSE MkDate(y + 1, m, d))
         /\ rv.date >= today
         /\ DayOf(rv.date) = d
         /\ MonthOf(rv.date) = m

\* C23 (as stated; violated): for every day number, month name and now, the
\* month-day matcher raises ParseError exactly when the day does not exist in
\* the month, and otherwise gives a valid date with that day and month that is
\* not before today: this year's when that is today or later, next year's
\* otherwise.
C23_MonthdayDate ==
    (matched.k = 6 /\ matched.rv.hit) =>
        MonthdayAsClaimed(matched.rv, matched.text[1].n, MonthNamed(matched.text[2].s),
                          DateOfDT(matched.now), YearOf(DateOfDT(matched.now)))

\* C24: for every now and weekday name, the weekday matcher gives today plus
\* ((target - today's weekday) mod 7) days: a date of the named weekday, 0 to 6
\* days after today, and today itself when today is the named weekday.
C24_WeekdayDate ==
    (matched.k = 5 /\ matched.rv.hit) =>
        /\ matched.rv.err = ""
        /\ matched.rv.date - DateOfDT(matched.now) \in 0..6
        /\ matched.rv.date - DateOfDT(matched.now) =
               (WeekdayNamed(matched.text[2].s) - Weekday(DateOfDT(matched.now))) % 7
        /\ Weekday(matched.rv.date) = WeekdayNamed(matched.text[2].s)
        /\ (Weekday(DateOfDT(matched.now)) = WeekdayNamed(matched.text[2].s))
               => matched.rv.date = DateOfDT(matched.now)

\* C24 witness: the weekday matcher was given today's weekday, on a Sunday
C24_NamedToday ==
    /\ matched.k = 5
    /\ matched.rv.hit
    /\ Weekday(DateOfDT(matched.now)) = 6
    /\ WeekdayNamed(matched.text[2].s) = 6
    /\ matched.rv.date = DateOfDT(matched.now)

\* the record r is what the call of last saved
SavedByLast(r, p) ==
    /\ r \notin last.before
    /\ last.after = last.before \cup { r }
    /\ r.chat_id = last.chat_id
    /\ r.datetime = IsoFormat(p.when)
    /\ r.reminder = p.what
    /\ r.reminder # << >>
    /\ Head(r.reminder) # Gap
    /\ r.reminder[Len(r.reminder)] # Gap
    /\ r.sent = 0

\* C22: handle_message changes the table in two cases only.  With the reply
\* "Reminder set on ..." the table has exactly one more record, of the
\* message's chat, with the parsed due time, the stripped body, which is not
\* empty, and sent = 0; with the reply "Removed reminder N" exactly the record
\* with id N is gone; with every other reply, and when an error leaves the
\* handler, the table is as it was.
C22_RouterFrame ==
    last.update_id # 0 =>
        /\ (last.reply.s = "Reminder set on")
               => \E r \in last.after : SavedByLast(r, parse_reminder(last.now, last.text))
        /\ (last.reply.s = "Removed reminder")
               => /\ last.after = { r \in last.before : r.id # last.reply.a[1] }
                  /\ Cardinality(last.before \ last.after) = 1
        /\ (last.reply.s \notin { "Reminder set on", "Removed reminder" })
               => last.after = last.before

\* C22 witness: a record was removed from a table of two, and the other is
\* still there
C22_RemovedOneKeptOne ==
    /\ last.reply.s = "Removed reminder"
    /\ Cardinality(last.before) = 2
    /\ Cardinality(last.after) = 1
    /\ records = last.after

\* C21: once stop was requested of the bot and of the sender, both threads
\* end: start_polling returns only at the test of its while loop, with no
\* message of the batch left, and Sender.start only at the test of its own; a
\* stop request changes nothing but the flag, so the batch and the tick under
\* way go on; and the process is not started again.
C21_ShutdownEnds ==
    /\ (botStop /\ sndStop) ~> (pollPc \in { "done", "dead" } /\ sndPc = "done")
    /\ [][ /\ (pollPc # "done" /\ pollPc' = "done")
                  => (pollPc = "fetch" /\ batch = << >> /\ botStop)
           /\ (sndPc # "done" /\ sndPc' = "done") => (sndPc = "run" /\ sndStop)
           /\ (botStop' # botStop \/ sndStop' # sndStop)
                  => UNCHANGED << records, pollVars, sndVars, outbox, runs >>
           /\ (botStop \/ supPc \in { "shutdown", "stopSender", "exited" })
                  => runs' = runs ]_vars

\* C21 witness: stop was requested while a batch was being dispatched and the
\* sender slept; the message was answered, and both loops have returned
C21_BothReturned ==
    /\ botStop /\ sndStop
    /\ pollPc = "done"
    /\ sndPc = "done"
    /\ supPc = "exited"
    /\ \E i \in DOMAIN outbox : outbox[i].kind = "reply"

=============================================================================
